---- MODULE Spec2Model ----
(***************************************************************************)
(* shootlog: the two EXIF decoders of internal/exif.                       *)
(*   ExtractSummary / parseEXIF   (source.go, parser.go)                   *)
(*   Extract        / parseExif   (extractor.go)                           *)
(* A byte is a number 0..255, a byte slice and a Go string are sequences   *)
(* of bytes (Go index i is TLA+ index i+1).  A uint32, and every Go int    *)
(* computed from one, is a pair <<hi, lo>> standing for hi*65536 + lo with *)
(* lo in 0..65535, so that 32-bit values and their 64-bit sums and         *)
(* products are exact.  Go's int is taken as 64 bits wide.                 *)
(***************************************************************************)
EXTENDS Integers, Sequences, FiniteSets, TLC

\* ------------------------------------------------------------ parser.go tags
ifdTagMake == 271
ifdTagModel == 272
ifdTagOrientation == 274
ifdTagSoftware == 305
ifdTagDateTime == 306
ifdTagExifOffset == 34665
ifdTagExposureTime == 33434
ifdTagFNumber == 33437
ifdTagISOSpeed == 34855
ifdTagDateTimeOriginal == 36867
ifdTagExposureProgram == 34850
ifdTagMeteringMode == 37383
ifdTagFlash == 37385
ifdTagFocalLength == 37386
ifdTagWhiteBalance == 41987
ifdTagSceneCaptureType == 41990
ifdTagLensModel == 42036

\* --------------------------------------------------------- field type codes
typeByte == 1
typeASCII == 2
typeShort == 3
typeLong == 4
typeRational == 5
typeUndefined == 7
typeSLONG == 9
typeSRational == 10

\* ------------------------------------------------------ extractor.go consts
tagMake == 271
tagModel == 272
tagDateTime == 306
tagExifIFD == 34665
tagExposureTime == 33434
tagFNumber == 33437
tagISO == 34855
tagFocalLength == 37386
tagLensModel == 42036
jpegSOI == 216
jpegAPP1 == 225
jpegSOS == 218
tiffIdentifier == 42
exifHeaderLength == 6

\* "Exif\x00\x00"
ExifSignature == <<69, 120, 105, 102, 0, 0>>

\* ------------------------------------------------------- exact wide numbers
W(n) == <<n \div 65536, n % 65536>>

WAdd(a, b) == <<a[1] + b[1] + ((a[2] + b[2]) \div 65536), (a[2] + b[2]) % 65536>>

\* a * k for a small k
WMulK(a, k) == <<a[1] * k + ((a[2] * k) \div 65536), (a[2] * k) % 65536>>

WGt(a, b) == a[1] > b[1] \/ (a[1] = b[1] /\ a[2] > b[2])

WGtN(a, n) == WGt(a, W(n))

\* the value as a plain number; used once a bound check has shown it small
WInt(a) == a[1] * 65536 + a[2]

\* truncation to 32 bits (uint32 arithmetic)
Wrap32(a) == <<a[1] % 65536, a[2]>>

\* a[lo:hi] of Go, for 0 <= lo <= hi <= len(a)
Slice(a, lo, hi) == SubSeq(a, lo + 1, hi)

\* ------------------------------------------------- encoding/binary.ByteOrder
\* order.Uint16(b[off:]) and order.Uint32(b[off:]); order is "LE" or "BE"
Uint16(order, b, off) ==
  IF order = "LE" THEN b[off + 1] + 256 * b[off + 2]
  ELSE b[off + 2] + 256 * b[off + 1]

Uint32(order, b, off) ==
  IF order = "LE"
  THEN <<b[off + 3] + 256 * b[off + 4], b[off + 1] + 256 * b[off + 2]>>
  ELSE <<b[off + 2] + 256 * b[off + 1], b[off + 4] + 256 * b[off + 3]>>

\* order.PutUint32(buffer, v): the four bytes written
PutUint32(order, v) ==
  IF order = "LE"
  THEN <<v[2] % 256, v[2] \div 256, v[1] % 256, v[1] \div 256>>
  ELSE <<v[1] \div 256, v[1] % 256, v[2] \div 256, v[2] % 256>>

PutUint16(order, n) ==
  IF order = "LE" THEN <<n % 256, n \div 256>> ELSE <<n \div 256, n % 256>>

\* ------------------------------------------------------- fmt.Sprintf("%d")
RECURSIVE DecW(_)
DecW(a) ==
  IF a[1] = 0 /\ a[2] < 10 THEN <<48 + a[2]>>
  ELSE LET t == (a[1] % 10) * 65536 + a[2]
       IN DecW(<<a[1] \div 10, t \div 10>>) \o <<48 + (t % 10)>>

Dec(n) == DecW(W(n))

\* strings.Join(parts, ",")
RECURSIVE JoinComma(_)
JoinComma(parts) ==
  IF Len(parts) = 0 THEN <<>>
  ELSE IF Len(parts) = 1 THEN parts[1]
  ELSE parts[1] \o <<44>> \o JoinComma(Tail(parts))

\* strings.TrimRight(s, "\x00")
RECURSIVE TrimRightNul(_)
TrimRightNul(s) ==
  IF Len(s) > 0 /\ s[Len(s)] = 0 THEN TrimRightNul(SubSeq(s, 1, Len(s) - 1))
  ELSE s

\* m[k] of a Go map[uint16]string: the zero value "" for a missing key
Get(m, k) == IF k \in DOMAIN m THEN m[k] ELSE <<>>

\* m[k] = v
Put(m, k, v) == [t \in (DOMAIN m) \cup {k} |-> IF t = k THEN v ELSE m[t]]

EmptyMap == [t \in {} |-> <<>>]

\* ================================================================ parser.go
\* findExifSegment: the first i with data[i] = 0xFF, data[i+1] = 0xE1, i+4 < len
RECURSIVE findExifSegmentFrom(_, _)
findExifSegmentFrom(data, i) ==
  IF ~(i + 4 < Len(data)) THEN [err |-> "ErrExifNotFound", segmentStart |-> 0]
  ELSE IF data[i + 1] # 255 THEN findExifSegmentFrom(data, i + 1)
  ELSE IF data[i + 2] = 225
       THEN LET length == Uint16("BE", data, i + 2)
                segmentStart == i + 4
            IN IF length < 2 \/ segmentStart + length - 2 > Len(data)
               THEN [err |-> "ErrInvalidExif", segmentStart |-> 0]
               ELSE [err |-> "", segmentStart |-> segmentStart]
       ELSE findExifSegmentFrom(data, i + 1)

findExifSegment(data) == findExifSegmentFrom(data, 0)

byteOrder(data) ==
  IF Len(data) < 2 THEN [err |-> "ErrInvalidExif", order |-> "none"]
  ELSE IF Slice(data, 0, 2) = <<73, 73>> THEN [err |-> "", order |-> "LE"]
  ELSE IF Slice(data, 0, 2) = <<77, 77>> THEN [err |-> "", order |-> "BE"]
  ELSE [err |-> "ErrInvalidExif", order |-> "none"]

typeSize(fieldType) ==
  IF fieldType \in {typeByte, typeASCII} THEN [size |-> 1, ok |-> TRUE]
  ELSE IF fieldType = typeShort THEN [size |-> 2, ok |-> TRUE]
  ELSE IF fieldType \in {typeLong, typeRational} THEN [size |-> 4, ok |-> TRUE]
  ELSE [size |-> 0, ok |-> FALSE]

RECURSIVE formatShortsFrom(_, _, _)
formatShortsFrom(data, order, i) ==
  IF i + 2 <= Len(data)
  THEN <<Dec(Uint16(order, data, i))>> \o formatShortsFrom(data, order, i + 2)
  ELSE <<>>

formatShorts(data, order) == JoinComma(formatShortsFrom(data, order, 0))

RECURSIVE formatLongsFrom(_, _, _)
formatLongsFrom(data, order, i) ==
  IF i + 4 <= Len(data)
  THEN <<DecW(Uint32(order, data, i))>> \o formatLongsFrom(data, order, i + 4)
  ELSE <<>>

formatLongs(data, order) == JoinComma(formatLongsFrom(data, order, 0))

RECURSIVE formatRationalsFrom(_, _, _)
formatRationalsFrom(data, order, i) ==
  IF i + 8 <= Len(data)
  THEN LET numerator == Uint32(order, data, i)
           denominator == Uint32(order, data, i + 4)
           part == IF denominator = <<0, 0>> THEN <<48>>
                   ELSE DecW(numerator) \o <<47>> \o DecW(denominator)
       IN <<part>> \o formatRationalsFrom(data, order, i + 8)
  ELSE <<>>

formatRationals(data, order) == JoinComma(formatRationalsFrom(data, order, 0))

\* asciiValue without the trim: the terminator stays in the text
asciiValueUntrimmed(valueData) == valueData

\* the value of an ASCII entry
asciiValue(valueData) == TrimRightNul(valueData)

\* where an entry's value starts: the slot itself, or tiffStart + the slot's offset
valueStartOf(data, tiffStart, valueOffset, order) ==
  WAdd(W(tiffStart), Uint32(order, data, valueOffset))

\* readIFDValue; count is a uint32
readIFDValue(data, tiffStart, fieldType, count, valueOffset, order) ==
  LET ts == typeSize(fieldType)
      byteCount == WMulK(count, ts.size)
      no == [value |-> <<>>, ok |-> FALSE]
  IN IF ~ts.ok THEN no
     ELSE IF WGtN(byteCount, 4) /\ valueOffset + 4 > Len(data) THEN no
     ELSE LET valueStart == IF WGtN(byteCount, 4)
                            THEN valueStartOf(data, tiffStart, valueOffset, order)
                            ELSE W(valueOffset)
          IN IF WGtN(WAdd(valueStart, byteCount), Len(data)) THEN no
             ELSE LET valueData == Slice(data, WInt(valueStart),
                                         WInt(valueStart) + WInt(byteCount))
                  IN IF fieldType = typeASCII
                     THEN [value |-> asciiValue(valueData), ok |-> TRUE]
                     ELSE IF fieldType = typeShort
                     THEN [value |-> IF count = <<0, 1>>
                                     THEN Dec(Uint16(order, valueData, 0))
                                     ELSE formatShorts(valueData, order),
                           ok |-> TRUE]
                     ELSE IF fieldType = typeLong
                     THEN [value |-> IF count = <<0, 1>>
                                     THEN DecW(Uint32(order, valueData, 0))
                                     ELSE formatLongs(valueData, order),
                           ok |-> TRUE]
                     ELSE IF fieldType = typeRational
                     THEN [value |-> formatRationals(valueData, order), ok |-> TRUE]
                     ELSE IF fieldType = typeByte /\ count = <<0, 1>>
                     THEN [value |-> Dec(valueData[1]), ok |-> TRUE]
                     ELSE no

\* the loop of parseIFD from entry i on, with the values and exifOffset so far
RECURSIVE parseIFDEntries(_, _, _, _, _, _, _, _)
parseIFDEntries(data, tiffStart, order, entryStart, count, i, values, exifOffset) ==
  IF ~(i < count) THEN [values |-> values, exifOffset |-> exifOffset]
  ELSE LET entryOffset == entryStart + i * 12
           tag == Uint16(order, data, entryOffset)
           fieldType == Uint16(order, data, entryOffset + 2)
           cnt == Uint32(order, data, entryOffset + 4)
           valueOffset == entryOffset + 8
           r == readIFDValue(data, tiffStart, fieldType, cnt, valueOffset, order)
       IN IF tag = ifdTagExifOffset
          THEN IF fieldType # typeLong \/ cnt # <<0, 1>>
               THEN parseIFDEntries(data, tiffStart, order, entryStart, count,
                                    i + 1, values, exifOffset)
               ELSE parseIFDEntries(data, tiffStart, order, entryStart, count,
                                    i + 1, values, Uint32(order, data, valueOffset))
          ELSE IF ~r.ok
          THEN parseIFDEntries(data, tiffStart, order, entryStart, count,
                               i + 1, values, exifOffset)
          ELSE parseIFDEntries(data, tiffStart, order, entryStart, count,
                               i + 1, Put(values, tag, r.value), exifOffset)

\* parseIFD; offset is a wide number
parseIFD(data, tiffStart, offset, order) ==
  LET bad == [err |-> "ErrInvalidExif", values |-> EmptyMap, exifOffset |-> <<0, 0>>]
  IN IF WGtN(WAdd(offset, W(2)), Len(data)) THEN bad
     ELSE LET count == Uint16(order, data, WInt(offset))
              entryStart == WInt(offset) + 2
              entriesEnd == entryStart + count * 12
          IN IF entriesEnd > Len(data) THEN bad
             ELSE LET r == parseIFDEntries(data, tiffStart, order, entryStart,
                                           count, 0, EmptyMap, <<0, 0>>)
                  IN [err |-> "", values |-> r.values, exifOffset |-> r.exifOffset]

firstNonEmpty(a, b) == IF a # <<>> THEN a ELSE IF b # <<>> THEN b ELSE <<>>

\* mergeTags with the precedence reversed: a key of tagValues is kept
mergeTagsMainWins(tagValues, exifValues) ==
  [t \in (DOMAIN tagValues) \cup (DOMAIN exifValues) |->
     IF t \in DOMAIN tagValues THEN tagValues[t] ELSE exifValues[t]]

\* the merge loop of parseEXIF: every key of exifValues overwrites tagValues
mergeTags(tagValues, exifValues) ==
  [t \in (DOMAIN tagValues) \cup (DOMAIN exifValues) |->
     IF t \in DOMAIN exifValues THEN exifValues[t] ELSE tagValues[t]]

EmptySummary ==
  [Make |-> <<>>, Model |-> <<>>, LensModel |-> <<>>, DateTime |-> <<>>,
   FNumber |-> <<>>, ExposureTime |-> <<>>, ISOSpeed |-> <<>>,
   FocalLength |-> <<>>, ExposureProgram |-> <<>>, MeteringMode |-> <<>>,
   WhiteBalance |-> <<>>, Software |-> <<>>, Orientation |-> <<>>,
   Flash |-> <<>>, SceneCaptureType |-> <<>>]

buildSummary(tagValues) ==
  [Make |-> Get(tagValues, ifdTagMake),
   Model |-> Get(tagValues, ifdTagModel),
   LensModel |-> Get(tagValues, ifdTagLensModel),
   DateTime |-> firstNonEmpty(Get(tagValues, ifdTagDateTimeOriginal),
                              Get(tagValues, ifdTagDateTime)),
   FNumber |-> Get(tagValues, ifdTagFNumber),
   ExposureTime |-> Get(tagValues, ifdTagExposureTime),
   ISOSpeed |-> Get(tagValues, ifdTagISOSpeed),
   FocalLength |-> Get(tagValues, ifdTagFocalLength),
   ExposureProgram |-> Get(tagValues, ifdTagExposureProgram),
   MeteringMode |-> Get(tagValues, ifdTagMeteringMode),
   WhiteBalance |-> Get(tagValues, ifdTagWhiteBalance),
   Software |-> Get(tagValues, ifdTagSoftware),
   Orientation |-> Get(tagValues, ifdTagOrientation),
   Flash |-> Get(tagValues, ifdTagFlash),
   SceneCaptureType |-> Get(tagValues, ifdTagSceneCaptureType)]

\* ============================================================= extractor.go
\* A slice whose capacity matters is [nil, arr, len]: arr holds the bytes of the
\* backing array from the slice's start to its capacity, len is its length.
NilSlice == [nil |-> TRUE, arr |-> <<>>, len |-> 0]

findExifBlockNoSegment == [err |-> "exif data not found", block |-> <<>>]

RECURSIVE findExifBlockFrom(_, _)
findExifBlockFrom(data, offset) ==
  IF ~(offset + 4 <= Len(data)) THEN findExifBlockNoSegment
  ELSE IF data[offset + 1] # 255
  THEN [err |-> "invalid jpeg marker", block |-> <<>>]
  ELSE IF data[offset + 2] = jpegSOS THEN findExifBlockNoSegment
  ELSE LET segmentLength == Uint16("BE", data, offset + 2)
           segmentStart == offset + 4
           segmentEnd == offset + 2 + segmentLength
       IN IF segmentLength < 2 \/ offset + 2 + segmentLength > Len(data)
          THEN [err |-> "invalid jpeg segment length", block |-> <<>>]
          ELSE IF data[offset + 2] = jpegAPP1
                  /\ segmentEnd - segmentStart >= exifHeaderLength
                  /\ Slice(data, segmentStart, segmentStart + exifHeaderLength)
                       = ExifSignature
          THEN [err |-> "", block |-> Slice(data, segmentStart, segmentEnd)]
          ELSE findExifBlockFrom(data, segmentEnd)

findExifBlock(data) ==
  IF Len(data) < 4 \/ data[1] # 255 \/ data[2] # jpegSOI
  THEN [err |-> "not a jpeg image", block |-> <<>>]
  ELSE findExifBlockFrom(data, 2)

parseByteOrder(data) ==
  IF Len(data) < 2 THEN [err |-> "tiff header too short", order |-> "none"]
  ELSE IF Slice(data, 0, 2) = <<73, 73>> THEN [err |-> "", order |-> "LE"]
  ELSE IF Slice(data, 0, 2) = <<77, 77>> THEN [err |-> "", order |-> "BE"]
  ELSE [err |-> "unknown byte order", order |-> "none"]

\* readData of tiffData t = [order, data]; size and valueOffset are uint32
readData(t, size, valueOffset) ==
  IF ~WGtN(size, 4)
  THEN [nil |-> FALSE, arr |-> PutUint32(t.order, valueOffset), len |-> WInt(size)]
  ELSE LET start == valueOffset
           end == WAdd(start, size)
       IN IF WGtN(end, Len(t.data)) THEN NilSlice
          ELSE [nil |-> FALSE,
                arr |-> Slice(t.data, WInt(start), WInt(end)),
                len |-> WInt(size)]

\* s[lo:hi] is in range when lo <= hi <= cap(s)
InCap(s, lo, hi) == lo <= hi /\ hi <= Len(s.arr)

Failed == [value |-> <<>>, ok |-> FALSE, panic |-> FALSE]

Panicked == [value |-> <<>>, ok |-> FALSE, panic |-> TRUE]

Value(v) == [value |-> v, ok |-> TRUE, panic |-> FALSE]

\* the index of the first 0x00 of s (0-based), or Len(s)
RECURSIVE FirstNul(_, _)
FirstNul(s, i) ==
  IF i >= Len(s) THEN Len(s)
  ELSE IF s[i + 1] = 0 THEN i ELSE FirstNul(s, i + 1)

readASCII(t, count, valueOffset) ==
  IF count = <<0, 0>> THEN Failed
  ELSE LET d == readData(t, count, valueOffset)
       IN IF d.nil THEN Failed
          ELSE LET bytes == Slice(d.arr, 0, d.len)
               IN Value(Slice(bytes, 0, FirstNul(bytes, 0)))

\* fmt.Sprintf("%d", int32(u))
DecInt32(u) ==
  IF u[1] < 32768 THEN DecW(u)
  ELSE <<45>> \o DecW(IF u[2] = 0 THEN <<65536 - u[1], 0>>
                      ELSE <<65535 - u[1], 65536 - u[2]>>)

\* count*8, count*2, count*4 in uint32
mulUint32(count, k) == Wrap32(WMulK(count, k))

readRational(t, count, valueOffset, signed) ==
  IF count = <<0, 0>> THEN Failed
  ELSE LET d == readData(t, mulUint32(count, 8), valueOffset)
       IN IF d.nil THEN Failed
          ELSE IF ~InCap(d, 0, 4) \/ ~InCap(d, 4, 8) THEN Panicked
          ELSE LET numerator == Uint32(t.order, d.arr, 0)
                   denominator == Uint32(t.order, d.arr, 4)
               IN IF denominator = <<0, 0>> THEN Failed
                  ELSE IF signed
                  THEN Value(DecInt32(numerator) \o <<47>> \o DecInt32(denominator))
                  ELSE Value(DecW(numerator) \o <<47>> \o DecW(denominator))

readShort(t, count, valueOffset) ==
  IF count = <<0, 0>> THEN Failed
  ELSE LET d == readData(t, mulUint32(count, 2), valueOffset)
       IN IF d.nil THEN Failed
          ELSE IF ~InCap(d, 0, 2) THEN Panicked
          ELSE Value(Dec(Uint16(t.order, d.arr, 0)))

readLong(t, count, valueOffset) ==
  IF count = <<0, 0>> THEN Failed
  ELSE LET d == readData(t, mulUint32(count, 4), valueOffset)
       IN IF d.nil THEN Failed
          ELSE IF ~InCap(d, 0, 4) THEN Panicked
          ELSE Value(DecW(Uint32(t.order, d.arr, 0)))

readSignedLong(t, count, valueOffset) ==
  IF count = <<0, 0>> THEN Failed
  ELSE LET d == readData(t, mulUint32(count, 4), valueOffset)
       IN IF d.nil THEN Failed
          ELSE IF ~InCap(d, 0, 4) THEN Panicked
          ELSE Value(DecInt32(Uint32(t.order, d.arr, 0)))

\* fmt.Sprintf("%x", b) of one byte
HexDigit(n) == IF n < 10 THEN 48 + n ELSE 87 + n

HexByte(b) == IF b < 16 THEN <<HexDigit(b)>> ELSE <<HexDigit(b \div 16), HexDigit(b % 16)>>

readByte(t, count, valueOffset) ==
  IF count = <<0, 0>> THEN Failed
  ELSE LET d == readData(t, count, valueOffset)
       IN IF d.nil THEN Failed
          ELSE IF ~(0 < d.len) THEN Panicked
          ELSE Value(HexByte(d.arr[1]))

readValue(t, tagType, count, valueOffset) ==
  IF tagType = typeASCII THEN readASCII(t, count, valueOffset)
  ELSE IF tagType = typeRational THEN readRational(t, count, valueOffset, FALSE)
  ELSE IF tagType = typeSRational THEN readRational(t, count, valueOffset, TRUE)
  ELSE IF tagType = typeShort THEN readShort(t, count, valueOffset)
  ELSE IF tagType = typeLong THEN readLong(t, count, valueOffset)
  ELSE IF tagType \in {typeByte, typeUndefined} THEN readByte(t, count, valueOffset)
  ELSE IF tagType = typeSLONG THEN readSignedLong(t, count, valueOffset)
  ELSE Failed

\* the loop of tiffData.parseIFD from entry i on
RECURSIVE tiffParseEntries(_, _, _, _, _)
tiffParseEntries(t, entriesStart, entryCount, i, values) ==
  IF ~(i < entryCount) THEN [values |-> values, panic |-> FALSE]
  ELSE LET entryOffset == entriesStart + i * 12
           tag == Uint16(t.order, t.data, entryOffset)
           tagType == Uint16(t.order, t.data, entryOffset + 2)
           count == Uint32(t.order, t.data, entryOffset + 4)
           valueOffset == Uint32(t.order, t.data, entryOffset + 8)
           r == readValue(t, tagType, count, valueOffset)
       IN IF r.panic THEN [values |-> values, panic |-> TRUE]
          ELSE tiffParseEntries(t, entriesStart, entryCount, i + 1,
                 IF r.ok THEN Put(values, tag, [tagType |-> tagType, value |-> r.value])
                 ELSE values)

NoTags == [t \in {} |-> [tagType |-> 0, value |-> <<>>]]

\* tiffData.parseIFD; offset is a uint32
tiffParseIFD(t, offset) ==
  IF offset = <<0, 0>> THEN [err |-> "", values |-> NoTags, panic |-> FALSE]
  ELSE IF WGtN(WAdd(offset, W(2)), Len(t.data))
  THEN [err |-> "ifd offset out of range", values |-> NoTags, panic |-> FALSE]
  ELSE LET entryCount == Uint16(t.order, t.data, WInt(offset))
           entriesStart == WInt(Wrap32(WAdd(offset, W(2))))
           entriesEnd == entriesStart + entryCount * 12
       IN IF entriesEnd > Len(t.data)
          THEN [err |-> "ifd entries out of range", values |-> NoTags, panic |-> FALSE]
          ELSE LET r == tiffParseEntries(t, entriesStart, entryCount, 0, NoTags)
               IN [err |-> "", values |-> r.values, panic |-> r.panic]

\* tags[k].value of a Go map[uint16]tagValue
TagValue(tags, k) == IF k \in DOMAIN tags THEN tags[k].value ELSE <<>>

\* ---------------------------------------- parseUint32: fmt.Sscanf(value, "%d")
IsDigit(c) == c >= 48 /\ c <= 57

\* blanks that SkipSpace passes over; a newline (10) is an error in Sscanf
IsBlank(c) == c \in {9, 11, 12, 13, 32}

RECURSIVE SkipBlanks(_)
SkipBlanks(s) == IF Len(s) > 0 /\ IsBlank(s[1]) THEN SkipBlanks(Tail(s)) ELSE s

\* the longest prefix of digits and underscores (scanNumber)
RECURSIVE NumberToken(_)
NumberToken(s) ==
  IF Len(s) > 0 /\ (IsDigit(s[1]) \/ s[1] = 95)
  THEN <<s[1]>> \o NumberToken(Tail(s))
  ELSE <<>>

\* the decimal value of a digit string, acc so far; <<65536, 0>> once past 32 bits
RECURSIVE ParseDigits(_, _)
ParseDigits(tok, acc) ==
  IF Len(tok) = 0 THEN acc
  ELSE IF acc[1] >= 65536 THEN <<65536, 0>>
  ELSE ParseDigits(Tail(tok), WAdd(WMulK(acc, 10), W(tok[1] - 48)))

parseUint32(value) ==
  LET tok == NumberToken(SkipBlanks(value))
      n == ParseDigits(tok, <<0, 0>>)
  IN IF Len(tok) = 0 \/ (\E i \in 1..Len(tok) : tok[i] = 95) \/ n[1] >= 65536
     THEN [err |-> TRUE, parsed |-> <<0, 0>>]
     ELSE [err |-> FALSE, parsed |-> n]

\* ------------------------- time.Parse("2006:01:02 15:04:05") then RFC3339
Num2(s, i) == (s[i] - 48) * 10 + (s[i + 1] - 48)

Digits(s, i, n) == i + n - 1 <= Len(s) /\ \A k \in i..(i + n - 1) : IsDigit(s[k])

IsLeap(y) == y % 4 = 0 /\ (y % 100 # 0 \/ y % 400 = 0)

DaysIn(m, y) ==
  IF m = 2 THEN (IF IsLeap(y) THEN 29 ELSE 28)
  ELSE IF m \in {4, 6, 9, 11} THEN 30 ELSE 31

\* the index of the first non-space of s at or after i
RECURSIVE CutSpace(_, _)
CutSpace(s, i) == IF i <= Len(s) /\ s[i] = 32 THEN CutSpace(s, i + 1) ELSE i

\* the index after the digits of s that start at i
RECURSIVE PastDigits(_, _)
PastDigits(s, i) == IF i <= Len(s) /\ IsDigit(s[i]) THEN PastDigits(s, i + 1) ELSE i

Pad2(n) == <<48 + (n \div 10), 48 + (n % 10)>>

Pad4(n) == Pad2(n \div 100) \o Pad2(n % 100)

\* the text after the hour field, which starts at index h and holds hl digits
TimeTail(s, h, hl, y, mo, d) ==
  LET hour == IF hl = 2 THEN Num2(s, h) ELSE s[h] - 48
      m == h + hl
      okShape == m + 5 <= Len(s) /\ s[m] = 58 /\ Digits(s, m + 1, 2)
                 /\ s[m + 3] = 58 /\ Digits(s, m + 4, 2)
      f == m + 6
      end == IF f + 1 <= Len(s) /\ s[f] \in {44, 46} /\ IsDigit(s[f + 1])
             THEN PastDigits(s, f + 1) ELSE f
  IN IF okShape /\ hour < 24 /\ Num2(s, m + 1) < 60 /\ Num2(s, m + 4) < 60
        /\ end = Len(s) + 1 /\ d >= 1 /\ d <= DaysIn(mo, y)
     THEN [ok |-> TRUE,
           text |-> Pad4(y) \o <<45>> \o Pad2(mo) \o <<45>> \o Pad2(d) \o <<84>>
                    \o Pad2(hour) \o <<58>> \o Pad2(Num2(s, m + 1)) \o <<58>>
                    \o Pad2(Num2(s, m + 4)) \o <<90>>]
     ELSE [ok |-> FALSE, text |-> <<>>]

\* metadata.DateTime for a non-empty rawDate
formatDateTime(rawDate) ==
  LET s == rawDate
      okDate == Digits(s, 1, 4) /\ Len(s) >= 10 /\ s[5] = 58 /\ Digits(s, 6, 2)
                /\ s[8] = 58 /\ Digits(s, 9, 2)
                /\ Num2(s, 6) >= 1 /\ Num2(s, 6) <= 12
      h == CutSpace(s, 11)
      okHour == Len(s) >= 11 /\ s[11] = 32 /\ Digits(s, h, 1)
      hl == IF Digits(s, h, 2) THEN 2 ELSE 1
      r == TimeTail(s, h, hl, Num2(s, 1) * 100 + Num2(s, 3), Num2(s, 6), Num2(s, 9))
  IN IF okDate /\ okHour /\ r.ok THEN r.text ELSE rawDate

EmptyMetadata ==
  [Make |-> <<>>, Model |-> <<>>, DateTime |-> <<>>, LensModel |-> <<>>,
   ExposureTime |-> <<>>, FNumber |-> <<>>, ISO |-> <<>>, FocalLength |-> <<>>]

buildMetadata(tags) ==
  [Make |-> TagValue(tags, tagMake),
   Model |-> TagValue(tags, tagModel),
   LensModel |-> TagValue(tags, tagLensModel),
   ExposureTime |-> TagValue(tags, tagExposureTime),
   FNumber |-> TagValue(tags, tagFNumber),
   ISO |-> TagValue(tags, tagISO),
   FocalLength |-> TagValue(tags, tagFocalLength),
   DateTime |-> IF TagValue(tags, tagDateTime) # <<>>
                THEN formatDateTime(TagValue(tags, tagDateTime))
                ELSE <<>>]

\* the merge loop of parseExif
mergeIFDTags(tags, ifdTags) ==
  [k \in (DOMAIN tags) \cup (DOMAIN ifdTags) |->
     IF k \in DOMAIN ifdTags THEN ifdTags[k] ELSE tags[k]]

\* ================================================= input files (part_000)
\* buildExifJPEG of the test file, generalised: an image is
\*   [lead, pre, exif, order, magic, ifd0, sub, tail]
\* and its file is lead, the segments pre, an APP1 segment holding "Exif\0\0"
\* and the TIFF payload (when exif), then tail.  The TIFF payload is the 8-byte
\* header, the main IFD at offset 8, the sub-IFD right after it (when sub is
\* not empty), then the out-of-line values in entry order.
\* An entry is [tag, type, count, kind, bytes, slot]:
\*   kind "inline": bytes, padded to four, fill the value slot
\*   kind "blob"  : bytes are stored out of line, the slot holds their offset
\*   kind "raw"   : the slot holds the number slot (whatever it designates)
\*   kind "sub"   : the slot holds the sub-IFD's offset
Entry(tag, type, count, kind, bytes, slot) ==
  [tag |-> tag, type |-> type, count |-> count, kind |-> kind,
   bytes |-> bytes, slot |-> slot]

PadSlot(b) == SubSeq(b \o <<0, 0, 0, 0>>, 1, 4)

\* an ASCII entry holding text and its terminator
AsciiEntry(tag, text) ==
  Entry(tag, typeASCII, W(Len(text) + 1),
        IF Len(text) + 1 > 4 THEN "blob" ELSE "inline", text \o <<0>>, <<0, 0>>)

RECURSIVE EncRationals(_, _)
EncRationals(ord, pairs) ==
  IF Len(pairs) = 0 THEN <<>>
  ELSE PutUint32(ord, pairs[1][1]) \o PutUint32(ord, pairs[1][2])
       \o EncRationals(ord, Tail(pairs))

\* a rational entry holding the pairs <<numerator, denominator>>
RationalEntry(ord, tag, pairs) ==
  Entry(tag, typeRational, W(Len(pairs)), "blob", EncRationals(ord, pairs), <<0, 0>>)

\* the pointer entry to the sub-IFD
SubPointer == Entry(ifdTagExifOffset, typeLong, <<0, 1>>, "sub", <<>>, <<0, 0>>)

BlobLen(e) == IF e.kind = "blob" THEN Len(e.bytes) ELSE 0

\* the total length of the out-of-line values of all[1..j-1]
RECURSIVE BlobsBefore(_, _)
BlobsBefore(all, j) ==
  IF j <= 1 THEN 0 ELSE BlobsBefore(all, j - 1) + BlobLen(all[j - 1])

RECURSIVE AllBlobs(_)
AllBlobs(all) ==
  IF Len(all) = 0 THEN <<>>
  ELSE (IF all[1].kind = "blob" THEN all[1].bytes ELSE <<>>) \o AllBlobs(Tail(all))

SubOffsetOf(img) == 8 + 2 + 12 * Len(img.ifd0) + 4

BlobStartOf(img) ==
  SubOffsetOf(img) + (IF Len(img.sub) > 0 THEN 2 + 12 * Len(img.sub) + 4 ELSE 0)

\* the offset, in the TIFF payload, of the out-of-line value of entry j of ifd0 \o sub
BlobOffsetOf(img, j) == BlobStartOf(img) + BlobsBefore(img.ifd0 \o img.sub, j)

EncEntry(img, j) ==
  LET e == (img.ifd0 \o img.sub)[j]
      slot == IF e.kind = "inline" THEN PadSlot(e.bytes)
              ELSE IF e.kind = "blob" THEN PutUint32(img.order, W(BlobOffsetOf(img, j)))
              ELSE IF e.kind = "sub" THEN PutUint32(img.order, W(SubOffsetOf(img)))
              ELSE PutUint32(img.order, e.slot)
  IN PutUint16(img.order, e.tag) \o PutUint16(img.order, e.type)
     \o PutUint32(img.order, e.count) \o slot

\* the encoded entries from..to of ifd0 \o sub
RECURSIVE EncEntries(_, _, _)
EncEntries(img, from, to) ==
  IF from > to THEN <<>> ELSE EncEntry(img, from) \o EncEntries(img, from + 1, to)

EncIFD(img, from, to) ==
  PutUint16(img.order, to - from + 1) \o EncEntries(img, from, to) \o <<0, 0, 0, 0>>

TiffOf(img) ==
  LET n0 == Len(img.ifd0)
      n1 == Len(img.sub)
  IN (IF img.order = "LE" THEN <<73, 73>> ELSE <<77, 77>>)
     \o PutUint16(img.order, img.magic)
     \o PutUint32(img.order, <<0, 8>>)
     \o EncIFD(img, 1, n0)
     \o (IF n1 > 0 THEN EncIFD(img, n0 + 1, n0 + n1) ELSE <<>>)
     \o AllBlobs(img.ifd0 \o img.sub)

\* a marker segment: 0xFF, the marker, the big-endian length, the payload
Segment(marker, payload) ==
  <<255, marker>> \o PutUint16("BE", Len(payload) + 2) \o payload

ExifSegmentOf(img) == Segment(jpegAPP1, ExifSignature \o TiffOf(img))

JpegOf(img) ==
  img.lead \o img.pre \o (IF img.exif THEN ExifSegmentOf(img) ELSE <<>>) \o img.tail

SOI == <<255, 216>>

EOI == <<255, 217>>

Image(lead, pre, exif, ord, magic, ifd0, sub, tail) ==
  [lead |-> lead, pre |-> pre, exif |-> exif, order |-> ord, magic |-> magic,
   ifd0 |-> ifd0, sub |-> sub, tail |-> tail]

\* ----------------------------------------------------- the files decoded
\* bounds of the model
MaxText == 4

MaxRationals == 3

Orders == {"LE", "BE"}

\* 'T', 0xFF, 0xE1
TextChars == {84, 255, 225}

Texts == UNION {[1..n -> TextChars] : n \in 0..MaxText}

\* "TestMake", "SubMake", "Model", "Lens"
TestMake == <<84, 101, 115, 116, 77, 97, 107, 101>>

SubMake == <<83, 117, 98, 77, 97, 107, 101>>

ModelText == <<77, 111, 100, 101, 108>>

LensText == <<76, 101, 110, 115>>

MakeOnly == <<AsciiEntry(ifdTagMake, TestMake)>>

\* SOI, APP1/Exif with one Make entry, EOI: the test's file, for every text
BasicImages ==
  {Image(SOI, <<>>, TRUE, o, 42, <<AsciiEntry(ifdTagMake, t)>>, <<>>, EOI) :
     o \in Orders, t \in Texts}

Leads == {SOI, <<0, 0>>, <<>>, <<255, 217>>, <<216, 255>>}

\* 42, and values that are not the TIFF magic
Magics == {42, 43, 0, 10752}

HeaderImages ==
  {Image(l, <<>>, TRUE, o, m, MakeOnly, <<>>, EOI) :
     l \in Leads, o \in Orders, m \in Magics}

\* what may precede the Exif segment: nothing, APP0, an APP1 without the
\* signature (long and short), an APP0 whose payload holds 0xFF 0xE1, a comment,
\* an APP1 with the signature and no byte order, segments with a bad length,
\* bytes that are no marker
PreSegments ==
  {<<>>,
   Segment(224, <<74, 70, 73, 70, 0>>),
   Segment(jpegAPP1, <<104, 116, 116, 112, 58, 47, 47, 110, 115>>),
   Segment(jpegAPP1, <<1, 2>>),
   Segment(224, <<1, 255, 225, 0, 2, 3, 4, 5, 6>>),
   Segment(254, <<104, 105>>),
   Segment(jpegAPP1, ExifSignature \o <<88, 88, 42, 0, 8, 0, 0, 0, 0, 0>>),
   <<255, 224, 0, 1>>,
   <<255, 224, 255, 255>>,
   <<0, 0, 0, 0>>}

HiddenExif ==
  ExifSegmentOf(Image(SOI, <<>>, TRUE, "LE", 42, MakeOnly, <<>>, EOI))

\* what may follow: EOI, nothing, a scan, a scan followed by an Exif segment
Tails ==
  {EOI,
   <<>>,
   Segment(jpegSOS, <<0>>) \o <<1, 2, 3>> \o EOI,
   Segment(jpegSOS, <<0>>) \o HiddenExif \o EOI}

LocatorImages ==
  {Image(l, p, x, "LE", 42, MakeOnly, <<>>, t) :
     l \in Leads, p \in PreSegments, x \in BOOLEAN, t \in Tails}

FieldTypes == {0, 1, 2, 3, 4, 5, 6, 7, 9, 10}

\* 0..7, 2^29, 2^29 + 1, 2^30, 2^31, 2^32 - 1
Counts ==
  {W(n) : n \in 0..7} \cup {<<8192, 0>>, <<8192, 1>>, <<16384, 0>>, <<32768, 0>>,
                             <<65535, 65535>>}

\* offsets into the payload of EntryImages (44 bytes, the Model text at 38),
\* past its end, and past the file
Slots == {W(n) : n \in {0, 38, 40, 43, 44, 100}} \cup {<<32768, 0>>, <<65535, 65535>>}

\* an entry of any type, count and slot, followed by a valid Model entry
EntryImages ==
  {Image(SOI, <<>>, TRUE, o, 42,
         <<Entry(ifdTagLensModel, ty, c, "raw", <<>>, sl),
           AsciiEntry(ifdTagModel, ModelText)>>, <<>>, EOI) :
     o \in Orders, ty \in FieldTypes, c \in Counts, sl \in Slots}

Pairs == {<<0, 28>>, <<65535, 65535>>} \X {<<0, 0>>, <<0, 10>>}

PairSeqs == UNION {[1..k -> Pairs] : k \in 1..MaxRationals}

RationalImages ==
  {Image(SOI, <<>>, TRUE, o, 42,
         <<RationalEntry(o, ifdTagFNumber, ps), AsciiEntry(ifdTagModel, ModelText)>>,
         <<>>, EOI) :
     o \in Orders, ps \in PairSeqs}

\* pointers to the sub-IFD: the real one, other types and counts, other offsets
Pointers ==
  {SubPointer,
   Entry(ifdTagExifOffset, typeShort, <<0, 1>>, "sub", <<>>, <<0, 0>>),
   Entry(ifdTagExifOffset, typeLong, <<0, 2>>, "sub", <<>>, <<0, 0>>),
   AsciiEntry(ifdTagExifOffset, <<52, 54>>),
   AsciiEntry(ifdTagExifOffset, <<32, 52, 54, 120>>),
   AsciiEntry(ifdTagExifOffset, <<45, 53>>)}
  \cup {Entry(ifdTagExifOffset, typeLong, <<0, 1>>, "raw", <<>>, sl) :
          sl \in {<<0, 0>>, <<0, 70>>, <<0, 500>>, <<65535, 65535>>}}

MainIFDs ==
  UNION {{<<AsciiEntry(ifdTagMake, TestMake), p>>,
          <<p, AsciiEntry(ifdTagMake, TestMake)>>,
          <<AsciiEntry(ifdTagMake, TestMake), AsciiEntry(ifdTagModel, ModelText), p>>} :
           p \in Pointers}

SubIFDs ==
  {<<AsciiEntry(ifdTagMake, SubMake)>>,
   <<AsciiEntry(ifdTagLensModel, LensText)>>,
   <<AsciiEntry(ifdTagMake, SubMake), AsciiEntry(ifdTagLensModel, LensText)>>,
   <<AsciiEntry(ifdTagMake, <<>>)>>,
   <<Entry(ifdTagMake, typeASCII, <<0, 9>>, "raw", <<>>, <<0, 500>>)>>,
   <<AsciiEntry(ifdTagMake, SubMake), AsciiEntry(ifdTagMake, LensText)>>,
   <<SubPointer, AsciiEntry(ifdTagModel, SubMake)>>}

SubImages ==
  {Image(SOI, <<>>, TRUE, o, 42, m, sb, EOI) :
     o \in Orders, m \in MainIFDs, sb \in SubIFDs}

DateTexts ==
  {<<50, 48, 50, 48, 58, 48, 50, 58, 50, 57, 32, 49, 48, 58, 49, 49, 58, 49, 50>>,
   <<50, 48, 50, 49, 58, 48, 50, 58, 50, 57, 32, 49, 48, 58, 49, 49, 58, 49, 50>>,
   <<50, 48, 50, 48, 58, 49, 50, 58, 51, 49, 32, 32, 55, 58, 53, 57, 58, 53, 57, 46, 50, 53>>,
   <<50, 48, 50, 48, 58, 49, 51, 58, 48, 49, 32, 48, 48, 58, 48, 48, 58, 48, 48>>,
   <<50, 48, 50, 48, 58, 48, 49, 58, 48, 50, 32, 48, 51, 58, 48, 52, 58, 48, 53, 90>>,
   <<116, 111, 100, 97, 121>>}

DateImages ==
  {Image(SOI, <<>>, TRUE, o, 42, <<AsciiEntry(tg, d)>>, <<>>, EOI) :
     o \in Orders, tg \in {ifdTagDateTime, ifdTagDateTimeOriginal}, d \in DateTexts}

Images ==
  BasicImages \cup HeaderImages \cup LocatorImages \cup EntryImages
  \cup RationalImages \cup SubImages \cup DateImages

\* ========================================================== the two decoders
VARIABLES
  input,         \* the image the file was built from
  data,          \* the bytes of the file
  pcSummary,     \* where ExtractSummary stands
  segmentStart, tiffStart, order, ifdOffset, tagValues, exifOffset,
  summary, errSummary,
  pcExtract,     \* where Extract stands
  tiff, firstIFD, tags, metadata, errExtract, panicked

summaryVars ==
  <<pcSummary, segmentStart, tiffStart, order, ifdOffset, tagValues, exifOffset,
    summary, errSummary>>

extractVars == <<pcExtract, tiff, firstIFD, tags, metadata, errExtract, panicked>>

vars == <<input, data, summaryVars, extractVars>>

Init ==
  /\ input \in Images
  /\ data = JpegOf(input)
  /\ pcSummary = "locate"
  /\ segmentStart = 0
  /\ tiffStart = 0
  /\ order = "none"
  /\ ifdOffset = <<0, 0>>
  /\ tagValues = EmptyMap
  /\ exifOffset = <<0, 0>>
  /\ summary = EmptySummary
  /\ errSummary = ""
  /\ pcExtract = "locate"
  /\ tiff = [order |-> "none", data |-> <<>>]
  /\ firstIFD = <<0, 0>>
  /\ tags = NoTags
  /\ metadata = EmptyMetadata
  /\ errExtract = ""
  /\ panicked = FALSE

\* ---------------------------------------------- ExtractSummary -> parseEXIF
\* return Summary{}, e
FailSummary(e) ==
  /\ pcSummary' = "done"
  /\ errSummary' = e
  /\ summary' = EmptySummary

\* parseEXIF lines 38-49: locate the segment and check its signature
LocateSegment ==
  /\ pcSummary = "locate"
  /\ LET r == findExifSegment(data)
     IN IF r.err # ""
        THEN FailSummary(r.err) /\ UNCHANGED segmentStart
        ELSE IF Len(data) < r.segmentStart + 6
                \/ Slice(data, r.segmentStart, r.segmentStart + 6) # ExifSignature
        THEN FailSummary("ErrInvalidExif") /\ UNCHANGED segmentStart
        ELSE /\ segmentStart' = r.segmentStart
             /\ pcSummary' = "header"
             /\ UNCHANGED <<errSummary, summary>>
  /\ UNCHANGED <<input, data, tiffStart, order, ifdOffset, tagValues, exifOffset,
                 extractVars>>

\* parseEXIF lines 51-64: the byte order and the first IFD's offset
ReadHeader ==
  /\ pcSummary = "header"
  /\ LET start == segmentStart + 6
         bo == byteOrder(Slice(data, start, Len(data)))
     IN IF Len(data) < start + 8
        THEN FailSummary("ErrInvalidExif") /\ UNCHANGED <<tiffStart, order, ifdOffset>>
        ELSE IF bo.err # ""
        THEN FailSummary(bo.err) /\ UNCHANGED <<tiffStart, order, ifdOffset>>
        ELSE IF Uint32(bo.order, data, start + 4) = <<0, 0>>
        THEN FailSummary("ErrInvalidExif") /\ UNCHANGED <<tiffStart, order, ifdOffset>>
        ELSE /\ tiffStart' = start
             /\ order' = bo.order
             /\ ifdOffset' = Uint32(bo.order, data, start + 4)
             /\ pcSummary' = "ifd0"
             /\ UNCHANGED <<errSummary, summary>>
  /\ UNCHANGED <<input, data, segmentStart, tagValues, exifOffset, extractVars>>

\* parseEXIF lines 66-70: the main IFD
ParseMainIFD ==
  /\ pcSummary = "ifd0"
  /\ LET r == parseIFD(data, tiffStart, WAdd(W(tiffStart), ifdOffset), order)
     IN IF r.err # ""
        THEN FailSummary(r.err) /\ UNCHANGED <<tagValues, exifOffset>>
        ELSE /\ tagValues' = r.values
             /\ exifOffset' = r.exifOffset
             /\ pcSummary' = "exififd"
             /\ UNCHANGED <<errSummary, summary>>
  /\ UNCHANGED <<input, data, segmentStart, tiffStart, order, ifdOffset, extractVars>>

\* parseEXIF lines 72-81: the Exif sub-IFD, merged over the main IFD's tags
ParseExifIFD ==
  /\ pcSummary = "exififd"
  /\ IF exifOffset # <<0, 0>>
     THEN LET r == parseIFD(data, tiffStart, WAdd(W(tiffStart), exifOffset), order)
          IN IF r.err # ""
             THEN FailSummary(r.err) /\ UNCHANGED tagValues
             ELSE /\ tagValues' = mergeTags(tagValues, r.values)
                  /\ pcSummary' = "summary"
                  /\ UNCHANGED <<errSummary, summary>>
     ELSE /\ pcSummary' = "summary"
          /\ UNCHANGED <<tagValues, errSummary, summary>>
  /\ UNCHANGED <<input, data, segmentStart, tiffStart, order, ifdOffset, exifOffset,
                 extractVars>>

\* parseEXIF lines 83-101: the Summary
BuildSummary ==
  /\ pcSummary = "summary"
  /\ summary' = buildSummary(tagValues)
  /\ pcSummary' = "done"
  /\ UNCHANGED <<input, data, segmentStart, tiffStart, order, ifdOffset, tagValues,
                 exifOffset, errSummary, extractVars>>

\* ----------------------------------------------------- Extract -> parseExif
\* return Metadata{}, e
FailExtract(e) ==
  /\ pcExtract' = "done"
  /\ errExtract' = e
  /\ metadata' = EmptyMetadata
  /\ UNCHANGED panicked

\* a runtime panic: an index or slice out of range
PanicExtract ==
  /\ pcExtract' = "done"
  /\ panicked' = TRUE
  /\ UNCHANGED <<errExtract, metadata>>

\* parseExif lines 78-88
FindBlock ==
  /\ pcExtract = "locate"
  /\ LET r == findExifBlock(data)
     IN IF r.err # "" THEN FailExtract(r.err) /\ UNCHANGED tiff
        ELSE IF Len(r.block) < exifHeaderLength + 8
        THEN FailExtract("exif block too short") /\ UNCHANGED tiff
        ELSE /\ tiff' = [order |-> "none",
                         data |-> Slice(r.block, exifHeaderLength, Len(r.block))]
             /\ pcExtract' = "header"
             /\ UNCHANGED <<errExtract, metadata, panicked>>
  /\ UNCHANGED <<input, data, firstIFD, tags, summaryVars>>

\* parseExif lines 90-104
ParseHeader ==
  /\ pcExtract = "header"
  /\ LET bo == parseByteOrder(tiff.data)
     IN IF bo.err # "" THEN FailExtract(bo.err) /\ UNCHANGED <<tiff, firstIFD>>
        ELSE IF Uint16(bo.order, tiff.data, 2) # tiffIdentifier
        THEN FailExtract("invalid tiff header") /\ UNCHANGED <<tiff, firstIFD>>
        ELSE /\ tiff' = [tiff EXCEPT !.order = bo.order]
             /\ firstIFD' = Uint32(bo.order, tiff.data, 4)
             /\ pcExtract' = "ifd0"
             /\ UNCHANGED <<errExtract, metadata, panicked>>
  /\ UNCHANGED <<input, data, tags, summaryVars>>

\* parseExif lines 105-108
ParseFirstIFD ==
  /\ pcExtract = "ifd0"
  /\ LET r == tiffParseIFD(tiff, firstIFD)
     IN IF r.panic THEN PanicExtract /\ UNCHANGED tags
        ELSE IF r.err # "" THEN FailExtract(r.err) /\ UNCHANGED tags
        ELSE /\ tags' = r.values
             /\ pcExtract' = "exififd"
             /\ UNCHANGED <<errExtract, metadata, panicked>>
  /\ UNCHANGED <<input, data, tiff, firstIFD, summaryVars>>

\* parseExif lines 110-120
ParsePointedIFD ==
  /\ pcExtract = "exififd"
  /\ IF tagExifIFD \in DOMAIN tags
     THEN LET p == parseUint32(tags[tagExifIFD].value)
              r == tiffParseIFD(tiff, p.parsed)
          IN IF p.err THEN pcExtract' = "metadata" /\ UNCHANGED <<tags, errExtract, metadata, panicked>>
             ELSE IF r.panic THEN PanicExtract /\ UNCHANGED tags
             ELSE IF r.err # ""
             THEN pcExtract' = "metadata" /\ UNCHANGED <<tags, errExtract, metadata, panicked>>
             ELSE /\ tags' = mergeIFDTags(tags, r.values)
                  /\ pcExtract' = "metadata"
                  /\ UNCHANGED <<errExtract, metadata, panicked>>
     ELSE pcExtract' = "metadata" /\ UNCHANGED <<tags, errExtract, metadata, panicked>>
  /\ UNCHANGED <<input, data, tiff, firstIFD, summaryVars>>

\* parseExif lines 122-140
BuildMetadata ==
  /\ pcExtract = "metadata"
  /\ metadata' = buildMetadata(tags)
  /\ pcExtract' = "done"
  /\ UNCHANGED <<input, data, tiff, firstIFD, tags, errExtract, panicked, summaryVars>>

Next ==
  \/ LocateSegment
  \/ ReadHeader
  \/ ParseMainIFD
  \/ ParseExifIFD
  \/ BuildSummary
  \/ FindBlock
  \/ ParseHeader
  \/ ParseFirstIFD
  \/ ParsePointedIFD
  \/ BuildMetadata

Spec == Init /\ [][Next]_vars

\* ==================================================================== claims
\* what the claims say of a file, read off the image it was built from
StartsWithSOI == Len(data) >= 2 /\ data[1] = 255 /\ data[2] = jpegSOI

\* the text an ASCII entry was built from (its bytes without the terminator)
TextOf(e) == SubSeq(e.bytes, 1, Len(e.bytes) - 1)

\* an ASCII entry as AsciiEntry builds it: count = text + terminator
IsAsciiEntry(e) ==
  /\ e.type = typeASCII
  /\ e.kind \in {"inline", "blob"}
  /\ Len(e.bytes) >= 1
  /\ e.bytes[Len(e.bytes)] = 0
  /\ e.count = W(Len(e.bytes))
  /\ (e.kind = "blob") = (Len(e.bytes) > 4)

\* SOI, one APP1/Exif segment, EOI
PlainFile == input.lead = SOI /\ input.pre = <<>> /\ input.exif /\ input.tail = EOI

\* the segment walk of section 4.1 from offset off: [kind, at] with kind
\* "exif" (an APP1 segment with the signature, its payload at at), "none" (the
\* scan marker, EOI or the end of the file came first) or "bad" (the walk met
\* something that is no well-formed segment)
RECURSIVE Walk(_, _)
Walk(d, off) ==
  IF off = Len(d) THEN [kind |-> "none", at |-> 0]
  ELSE IF off + 2 > Len(d) \/ d[off + 1] # 255 THEN [kind |-> "bad", at |-> 0]
  ELSE IF d[off + 2] \in {jpegSOS, 217} THEN [kind |-> "none", at |-> 0]
  ELSE IF off + 4 > Len(d) THEN [kind |-> "bad", at |-> 0]
  ELSE LET length == Uint16("BE", d, off + 2)
       IN IF length < 2 \/ off + 2 + length > Len(d) THEN [kind |-> "bad", at |-> 0]
          ELSE IF d[off + 2] = jpegAPP1 /\ length >= 8
                  /\ Slice(d, off + 4, off + 10) = ExifSignature
          THEN [kind |-> "exif", at |-> off + 4]
          ELSE Walk(d, off + 2 + length)

\* --------------------------------------------------------------------- C1
C1Case ==
  /\ PlainFile
  /\ input.order = "LE"
  /\ input.magic = 42
  /\ input.sub = <<>>
  /\ Len(input.ifd0) = 1
  /\ input.ifd0[1].tag = ifdTagMake
  /\ IsAsciiEntry(input.ifd0[1])
  /\ input.ifd0[1].kind = "blob"

\* C1: for SOI + one APP1/Exif segment + EOI with byte order II, magic 0x002A,
\* first IFD at 8 and one ASCII Make entry stored out of line, ExtractSummary
\* succeeds and Summary.Make is the value text without its terminator.
C1_MakeDecoded ==
  (C1Case /\ pcSummary = "done")
    => (errSummary = "" /\ summary.Make = TextOf(input.ifd0[1]))

C1_Witness ==
  /\ C1Case
  /\ pcSummary = "done"
  /\ errSummary = ""
  /\ summary.Make = TestMake

C3_NotAnImage ==
  (~StartsWithSOI /\ pcSummary = "done")
    => errSummary \notin {"", "ErrExifNotFound", "ErrInvalidExif"}

\* --------------------------------------------------------------------- C4
\* C4: for every well-formed JPEG with no APP1/Exif segment before the scan
\* marker or the end of the file, ExtractSummary fails with ErrExifNotFound.
C4_ExifNotFound ==
  (StartsWithSOI /\ Walk(data, 2).kind = "none" /\ pcSummary = "done")
    => errSummary = "ErrExifNotFound"

\* --------------------------------------------------------------------- C5
\* C5: the Extract decoder never takes an index or slice out of range: an access
\* that would exceed the slice ends in an error or a dropped tag, never a panic.
C5_NoPanic == ~panicked

\* --------------------------------------------------------------------- C6
\* the size of one value of a type whose size both decoders agree on
PlainTypeSize(ty) == IF ty \in {typeByte, typeASCII} THEN 1 ELSE IF ty = typeShort THEN 2 ELSE 4

\* a file of EntryImages: a raw entry followed by the valid Model entry
C6Case ==
  /\ PlainFile
  /\ input.magic = 42
  /\ input.sub = <<>>
  /\ Len(input.ifd0) = 2
  /\ input.ifd0[1].kind = "raw"
  /\ input.ifd0[1].tag = ifdTagLensModel
  /\ input.ifd0[1].type \in {typeByte, typeASCII, typeShort, typeLong}
  /\ input.ifd0[2] = AsciiEntry(ifdTagModel, ModelText)

\* the raw entry's value is stored out of line and ends past the TIFF payload
C6PastPayload ==
  LET e == input.ifd0[1]
      extent == WMulK(e.count, PlainTypeSize(e.type))
  IN WGtN(extent, 4) /\ WGtN(WAdd(e.slot, extent), Len(TiffOf(input)))

\* C6: an entry (of type byte, ASCII, short or long) whose extent count x size,
\* resolved from its offset, would read past the end of the TIFF payload is
\* dropped: its tag is absent, decoding succeeds and the other entry of the
\* directory is decoded as without it.
C6_PastPayloadDropped ==
  (C6Case /\ C6PastPayload /\ pcSummary = "done")
    => /\ errSummary = ""
       /\ ifdTagLensModel \notin DOMAIN tagValues
       /\ summary.LensModel = <<>>
       /\ summary.Model = ModelText

\* --------------------------------------------------------------- C7 and C8
\* a file of RationalImages: a rational entry for FNumber, built from pairs
RationalCase ==
  /\ PlainFile
  /\ input.magic = 42
  /\ Len(input.ifd0) >= 1
  /\ input.ifd0[1].tag = ifdTagFNumber
  /\ input.ifd0[1].type = typeRational
  /\ input.ifd0[1].kind = "blob"
  /\ input.ifd0[1].count = W(Len(input.ifd0[1].bytes) \div 8)

NumberOfPairs == Len(input.ifd0[1].bytes) \div 8

Numerator(i) == Uint32(input.order, input.ifd0[1].bytes, 8 * (i - 1))

Denominator(i) == Uint32(input.order, input.ifd0[1].bytes, 8 * (i - 1) + 4)

\* "n/d", or "0" for a zero denominator
ElementText(i) ==
  IF Denominator(i) = <<0, 0>> THEN <<48>>
  ELSE DecW(Numerator(i)) \o <<47>> \o DecW(Denominator(i))

\* C7: for an unsigned rational entry of count 1 with d # 0 the formatted value
\* is exactly "n/d", in either byte order.
C7_RationalText ==
  (RationalCase /\ NumberOfPairs = 1 /\ Denominator(1) # <<0, 0>> /\ pcSummary = "done")
    => (errSummary = "" /\ summary.FNumber = ElementText(1))

\* C8: a rational entry with a zero denominator: with count 1 the field is
\* empty; with k > 1 values the result has exactly k comma-separated elements in
\* order, "0" at each zero-denominator position and "n/d" elsewhere.
C8_ZeroDenominator ==
  (/\ RationalCase
   /\ \E i \in 1..NumberOfPairs : Denominator(i) = <<0, 0>>
   /\ pcSummary = "done")
    => /\ errSummary = ""
       /\ summary.FNumber =
            IF NumberOfPairs = 1 THEN <<>>
            ELSE JoinComma([i \in 1..NumberOfPairs |-> ElementText(i)])

\* --------------------------------------------------------------------- C9
ValueEntries(es) == {i \in 1..Len(es) : es[i].tag # ifdTagExifOffset}

TagsIn(es) == {es[i].tag : i \in ValueEntries(es)}

\* the text of the last entry of es for tag
LastTextOf(es, tag) ==
  TextOf(es[CHOOSE i \in ValueEntries(es) :
              /\ es[i].tag = tag
              /\ \A j \in ValueEntries(es) : es[j].tag = tag => j <= i])

\* a file whose main IFD points to a sub-IFD, every other entry a decodable
\* ASCII entry
C9Case ==
  /\ PlainFile
  /\ input.magic = 42
  /\ Len(input.sub) > 0
  /\ \E i \in 1..Len(input.ifd0) : input.ifd0[i] = SubPointer
  /\ \A i \in 1..Len(input.ifd0) :
       input.ifd0[i] = SubPointer \/ (i \in ValueEntries(input.ifd0) /\ IsAsciiEntry(input.ifd0[i]))
  /\ \A i \in ValueEntries(input.sub) : IsAsciiEntry(input.sub[i])

\* C9: when the main IFD and the Exif sub-IFD both hold a decoded entry for a
\* tag, the final mapping and the Summary hold the sub-IFD's value; a tag of the
\* main IFD alone keeps its main-IFD value.
C9_SubIFDWins ==
  (C9Case /\ pcSummary \in {"summary", "done"})
    => /\ errSummary = ""
       /\ \A tag \in TagsIn(input.ifd0) \cup TagsIn(input.sub) :
            /\ tag \in DOMAIN tagValues
            /\ tagValues[tag] = IF tag \in TagsIn(input.sub)
                                THEN LastTextOf(input.sub, tag)
                                ELSE LastTextOf(input.ifd0, tag)
       /\ pcSummary = "done" =>
            /\ summary.Make = Get(tagValues, ifdTagMake)
            /\ summary.Model = Get(tagValues, ifdTagModel)
            /\ summary.LensModel = Get(tagValues, ifdTagLensModel)

C9_Witness ==
  /\ C9Case
  /\ pcSummary = "done"
  /\ ifdTagMake \in TagsIn(input.ifd0) \cap TagsIn(input.sub)
  /\ ifdTagModel \in TagsIn(input.ifd0) \ TagsIn(input.sub)
  /\ summary.Make = SubMake
  /\ summary.Model = ModelText

\* -------------------------------------------------------------------- C10
\* C10: after a valid byte-order signature the next 2-byte value is verified to
\* be 0x002A; where it differs, parseEXIF fails before any IFD is parsed.
C10_MagicVerified ==
  (pcSummary \in {"ifd0", "exififd", "summary"} \/ (pcSummary = "done" /\ errSummary = ""))
    => Uint16(order, data, tiffStart + 2) = tiffIdentifier

\* -------------------------------------------------------------------- C11
\* the main IFD's pointer entries (tag 0x8769, LONG, count 1) that hold a number
PointerEntries ==
  {i \in 1..Len(input.ifd0) :
     /\ input.ifd0[i].tag = tagExifIFD
     /\ input.ifd0[i].type = typeLong
     /\ input.ifd0[i].count = <<0, 1>>
     /\ input.ifd0[i].kind = "raw"}

\* the directory at offset off of the payload p has its entry count or its entry
\* table past the end of p
DirectoryPastPayload(p, ord, off) ==
  /\ off # <<0, 0>>
  /\ \/ WGtN(WAdd(off, W(2)), Len(p))
     \/ WInt(off) + 2 + 12 * Uint16(ord, p, WInt(off)) > Len(p)

\* a plain file whose main IFD has one pointer entry, to a directory that
\* extends past the TIFF payload
C11Case ==
  /\ PlainFile
  /\ input.magic = 42
  /\ Cardinality(PointerEntries) = 1
  /\ \A i \in 1..Len(input.ifd0) : input.ifd0[i].tag = tagExifIFD => i \in PointerEntries
  /\ \A i \in PointerEntries :
       DirectoryPastPayload(TiffOf(input), input.order, input.ifd0[i].slot)

\* C11: when the main IFD holds the Exif sub-IFD pointer and the directory it
\* designates has its entry count or entry table past the TIFF payload,
\* parseExif returns an error and the zero Metadata, never a Metadata built from
\* the main IFD alone.
C11_SubIFDFailureFatal ==
  (C11Case /\ pcExtract = "done")
    => (errExtract # "" /\ metadata = EmptyMetadata)

====
